---------------------------- MODULE Spec2Model ----------------------------
(***************************************************************************)
(* Model of the brownieGate API client (src/browniegate/brownie_gate.py).  *)
(*                                                                         *)
(* The client is one object holding a configuration; every method is one   *)
(* synchronous call.  A call is one action: it draws its arguments and the *)
(* server's answer from bounded sets, runs the whole method and records    *)
(* what the method did in `last`, where the caller finds it.  The caller   *)
(* takes the outcome (TakeResult) before it calls again.                   *)
(***************************************************************************)
EXTENDS Integers, Sequences, FiniteSets, TLC

VARIABLES
    ctor,     \* the arguments the constructor was called with
    self,     \* the attributes of the brownieGate instance
    clock,    \* wall-clock time, in seconds since 2024-01-01T00:00:00
    last,     \* the call whose outcome the caller holds: arguments, answer, outcome
    runtime   \* the Python the client runs on, as far as the methods depend on it

vars == <<ctor, self, clock, last, runtime>>

(***************************************************************************)
(* Bounds of the model.                                                    *)
(***************************************************************************)
MaxTicks == 1        \* seconds the clock may advance
MaxSlashes == 1      \* trailing slashes on the url given to the constructor

(***************************************************************************)
(* Python values.  A str is a text: a sequence of lexical tokens, so that  *)
(* the parsers below have something to parse.  A token is a record         *)
(* [k, v]: k is "p" (punctuation), "dq" / "sq" (a string literal in double *)
(* or single quotes), or "w" (a bare run of characters).                   *)
(***************************************************************************)
Tok(k, v) == [k |-> k, v |-> v]
Word(w) == IF w = "" THEN << >> ELSE <<Tok("w", w)>>

PyNone == [t |-> "NoneType", x |-> << >>]
PyTrue == [t |-> "bool", x |-> Word("True")]
PyFalse == [t |-> "bool", x |-> Word("False")]
PyNaN == [t |-> "float", x |-> Word("nan")]
PyStr(text) == [t |-> "str", x |-> text]
Str(w) == PyStr(Word(w))
PyDict(f) == [t |-> "dict", d |-> f]
PyBytes(b) == [t |-> "bytes", b |-> b]
EmptyDict == [k \in {} |-> PyNone]

\* dict.get(key): the value, or None when the key is absent.
Get(dict, key) == IF key \in DOMAIN dict.d THEN dict.d[key] ELSE PyNone

\* Mutant of Pop: the key is looked up but never removed.
PopKeeps(dict, key) == dict

\* dict.pop(key) for a key that is present: the dict without it.
Pop(dict, key) == PyDict([k \in (DOMAIN dict.d) \ {key} |-> dict.d[k]])

\* Truth value of an object, as `if x:` and bool(x) compute it.
Truthy(v) ==
    CASE v.t = "NoneType" -> FALSE
      [] v.t = "bool" -> v = PyTrue
      [] v.t = "str" -> v.x # << >>
      [] v.t = "dict" -> DOMAIN v.d # {}
      [] OTHER -> TRUE

(***************************************************************************)
(* Texts: rendering and parsing.                                           *)
(***************************************************************************)
LB == Tok("p", "{")
RB == Tok("p", "}")
COLON == Tok("p", ":")
COMMA == Tok("p", ",")

\* Number of bytes of a text as json.dumps / str(dict) lay it out: a quoted
\* string carries its two quotes, ':' and ',' are followed by one space.
TokLen(tok) ==
    CASE tok.k \in {"dq", "sq"} -> Len(tok.v) + 2
      [] tok.k = "p" /\ tok.v \in {":", ","} -> 2
      [] tok.k = "p" -> 1
      [] OTHER -> Len(tok.v)

RECURSIVE TextLen(_)
TextLen(text) ==
    IF text = << >> THEN 0 ELSE TokLen(Head(text)) + TextLen(Tail(text))

\* json.dumps of a mapping with the keys code and timestamp, both str.
json_dumps(m) ==
    <<LB, Tok("dq", "code"), COLON, Tok("dq", m.code), COMMA,
      Tok("dq", "timestamp"), COLON, Tok("dq", m.timestamp), RB>>

\* A parse result: ok with a value, or a failure.
Ok(v) == [ok |-> TRUE, val |-> v]
Fail == [ok |-> FALSE, val |-> PyNone]

\* The scalar a JSON token denotes, if any.  Python's json module also
\* accepts the bare word NaN.
JsonScalar(tok) ==
    CASE tok.k = "dq" -> Ok(Str(tok.v))
      [] tok.k = "w" /\ tok.v = "true" -> Ok(PyTrue)
      [] tok.k = "w" /\ tok.v = "false" -> Ok(PyFalse)
      [] tok.k = "w" /\ tok.v = "null" -> Ok(PyNone)
      [] tok.k = "w" /\ tok.v = "NaN" -> Ok(PyNaN)
      [] OTHER -> Fail

\* The scalar a Python literal token denotes, if any.
LiteralScalar(tok) ==
    CASE tok.k \in {"dq", "sq"} -> Ok(Str(tok.v))
      [] tok.k = "w" /\ tok.v = "True" -> Ok(PyTrue)
      [] tok.k = "w" /\ tok.v = "False" -> Ok(PyFalse)
      [] tok.k = "w" /\ tok.v = "None" -> Ok(PyNone)
      [] OTHER -> Fail

Scalar(lang, tok) == IF lang = "json" THEN JsonScalar(tok) ELSE LiteralScalar(tok)

IsKey(lang, tok) == tok.k = "dq" \/ (lang = "literal" /\ tok.k = "sq")

\* Members of an object / dict display from position i on, `acc` holding the
\* members read so far (a later duplicate key replaces an earlier one).
\* Only a Python literal may end with a comma before the closing brace.
RECURSIVE Members(_, _, _, _)
Members(lang, text, i, acc) ==
    IF i + 2 > Len(text) THEN Fail
    ELSE IF ~IsKey(lang, text[i]) \/ text[i + 1] # COLON THEN Fail
    ELSE LET v == Scalar(lang, text[i + 2])
             acc2 == [k \in (DOMAIN acc) \cup {text[i].v} |->
                         IF k = text[i].v THEN v.val ELSE acc[k]]
         IN  IF ~v.ok \/ i + 3 > Len(text) THEN Fail
             ELSE IF text[i + 3] = RB
                  THEN (IF i + 3 = Len(text) THEN Ok(PyDict(acc2)) ELSE Fail)
             ELSE IF text[i + 3] # COMMA THEN Fail
             ELSE IF lang = "literal" /\ i + 4 = Len(text) /\ text[i + 4] = RB
                  THEN Ok(PyDict(acc2))
             ELSE Members(lang, text, i + 4, acc2)

Parse(lang, text) ==
    IF text = << >> THEN Fail
    ELSE IF Len(text) = 1 THEN Scalar(lang, text[1])
    ELSE IF text[1] # LB THEN Fail
    ELSE IF text = <<LB, RB>> THEN Ok(PyDict(EmptyDict))
    ELSE Members(lang, text, 2, EmptyDict)

\* json.loads(text)
json_loads(text) == Parse("json", text)

\* Mutant of literal_eval: the text is read as JSON.
literal_eval_json(text) == Parse("json", text)

\* ast.literal_eval(text)
literal_eval(text) == Parse("literal", text)

(***************************************************************************)
(* URL quoting (urllib.parse).  A character is a one-character string.     *)
(***************************************************************************)
HexVal(c) ==
    CASE c = "3" -> 3
      [] c \in {"D", "d"} -> 13
      [] OTHER -> -1

\* The character with the given code, among those the model distinguishes:
\* '=' (0x3D), '3' (0x33), and '?' for any character outside base64's
\* alphabet.
Chr(n) ==
    CASE n = 61 -> "="
      [] n = 51 -> "3"
      [] OTHER -> "?"

\* unquote(chars): every %XX with two hex digits becomes the character XX,
\* anything else is kept.
RECURSIVE unquote_chars(_)
unquote_chars(cs) ==
    IF cs = << >> THEN << >>
    ELSE IF /\ Head(cs) = "%"
            /\ Len(cs) >= 3
            /\ HexVal(cs[2]) >= 0
            /\ HexVal(cs[3]) >= 0
         THEN <<Chr(16 * HexVal(cs[2]) + HexVal(cs[3]))>>
                  \o unquote_chars(SubSeq(cs, 4, Len(cs)))
    ELSE <<Head(cs)>> \o unquote_chars(Tail(cs))

\* quote(chars): '=' is percent-encoded, letters and digits are kept.
RECURSIVE quote_chars(_)
quote_chars(cs) ==
    IF cs = << >> THEN << >>
    ELSE (IF Head(cs) = "=" THEN <<"%", "3", "D">> ELSE <<Head(cs)>>)
             \o quote_chars(Tail(cs))

(***************************************************************************)
(* Fernet (cryptography.fernet), symbolically.  A token's bytes are        *)
(*   ver  the version byte, 0x80,                                          *)
(*   ct   the AES ciphertext, the term Enc(key, plaintext); g counts the   *)
(*        alterations made to its bytes,                                   *)
(*   mac  the HMAC, the term Hmac(key, ver, ct); flip counts the           *)
(*        alterations made to its bytes.                                   *)
(* The token handed out is the url-safe base64 text of these bytes: a      *)
(* record [raw, slack, std, tail], where raw is what the data characters   *)
(* decode to, slack is the value of the bits of the last data character    *)
(* that encode nothing (zero as encoded), std is the number of data        *)
(* characters written in the standard alphabet, '+' for '-' or '/' for     *)
(* '_' (none as encoded), and tail is the characters after the last data   *)
(* character.                                                              *)
(***************************************************************************)
FernetKeys == {"K1", "K2"}     \* the strings that are well-formed keys

Enc(key, pt) == [key |-> key, pt |-> pt, g |-> 0]
Hmac(key, ver, ct) == [key |-> key, ver |-> ver, ct |-> ct, flip |-> 0]
Token(key, pt) ==
    [ver |-> 128, ct |-> Enc(key, pt), mac |-> Hmac(key, 128, Enc(key, pt))]

\* Bytes of a token: version 1, timestamp 8, IV 16, the plaintext padded to
\* whole 16-byte blocks, HMAC 32.
TokenLen(raw) == 57 + 16 * ((TextLen(raw.ct.pt) \div 16) + 1)

\* '=' characters base64 appends to that many bytes.
NPad(raw) == (3 - (TokenLen(raw) % 3)) % 3

urlsafe_b64encode(raw) ==
    [raw |-> raw, slack |-> 0, std |-> 0,
     tail |-> [i \in 1..NPad(raw) |-> "="]]

\* The package runs on any Python from 3.8 on (setup.py), and the lenient
\* base64 decoder of the standard library is not the same in all of them:
\*   "stop"  once a group is completed by its padding, the decoder stops
\*           and the rest of the input is not looked at (CPython 3.11);
\*   "skip"  the decoder goes on: an '=' that data characters follow is
\*           skipped, and only the '=' at the end pad the last group
\*           (CPython 3.13.13).
Runtimes == {"stop", "skip"}

\* The lenient decoder (binascii.a2b_base64, strict_mode off) from the
\* first character after the data on: qp is the position in the current
\* group of four, pads the '=' seen since the last data character.  "ok":
\* the bytes are those of the data characters; "altered": further data
\* characters were decoded; "error": binascii.Error.  `extra` says that
\* data characters were met.
IsB64Char(c) == c \in {"3", "D", "d", "A"}

RECURSIVE TailScan(_, _, _, _, _, _)
TailScan(rt, tail, i, qp, pads, extra) ==
    IF i > Len(tail)
    THEN (IF qp # 0 /\ ~(qp >= 2 /\ qp + pads >= 4) THEN "error"
          ELSE IF extra THEN "altered" ELSE "ok")
    ELSE IF tail[i] = "="
         THEN IF rt = "stop" /\ qp >= 2 /\ qp + pads + 1 >= 4
              THEN (IF extra THEN "altered" ELSE "ok")
              ELSE TailScan(rt, tail, i + 1, qp,
                            IF qp >= 2 THEN pads + 1 ELSE pads, extra)
    ELSE IF IsB64Char(tail[i])
         THEN TailScan(rt, tail, i + 1, (qp + 1) % 4, 0, TRUE)
    ELSE TailScan(rt, tail, i + 1, qp, pads, extra)

\* base64.urlsafe_b64decode(s), on the Python the client runs on: the
\* bytes, or binascii.Error.  '-' and '_' are translated to '+' and '/',
\* which the decoder reads, as it reads a '+' or '/' already there: s.std
\* changes nothing.  Bytes with further data decoded after them are longer,
\* so that their last 32 bytes are no longer the HMAC of the rest.
urlsafe_b64decode(s) ==
    LET r == TailScan(runtime, s.tail, 1, (4 - NPad(s.raw)) % 4, 0, FALSE)
    IN  CASE r = "ok" -> [ok |-> TRUE, raw |-> s.raw]
          [] r = "altered" ->
                 [ok |-> TRUE, raw |-> [s.raw EXCEPT !.mac.flip = @ + 1]]
          [] OTHER -> [ok |-> FALSE, raw |-> s.raw]

\* Fernet(key): ValueError unless the key is well formed.
FernetOk(key) == key \in FernetKeys

\* Fernet(key).encrypt(data)
fernet_encrypt(key, pt) == urlsafe_b64encode(Token(key, pt))

\* Mutant of fernet_decrypt: the HMAC is not compared.
fernet_decrypt_unauthenticated(key, s) ==
    LET data == urlsafe_b64decode(s)
    IN  IF ~data.ok THEN [ok |-> FALSE, pt |-> << >>]
        ELSE IF data.raw.ver # 128 THEN [ok |-> FALSE, pt |-> << >>]
        ELSE IF data.raw.ct.key # key THEN [ok |-> FALSE, pt |-> << >>]
        ELSE [ok |-> TRUE, pt |-> data.raw.ct.pt]

\* Fernet(key).decrypt(token): the plaintext, or InvalidToken.
fernet_decrypt(key, s) ==
    LET data == urlsafe_b64decode(s)
    IN  IF ~data.ok THEN [ok |-> FALSE, pt |-> << >>]
        ELSE IF data.raw.ver # 128 THEN [ok |-> FALSE, pt |-> << >>]
        ELSE IF data.raw.mac # Hmac(key, data.raw.ver, data.raw.ct)
             THEN [ok |-> FALSE, pt |-> << >>]
        ELSE [ok |-> TRUE, pt |-> data.raw.ct.pt]

\* Mutant of unquote: the string is used as received.
unquote_missing(s) == s

\* unquote / quote of a token string.  unquote touches '%' only, which no
\* data character is; quote is applied to what the encoder gives, whose
\* data characters are letters, digits, '-' and '_', which it keeps.
unquote(s) == [s EXCEPT !.tail = unquote_chars(@)]
quote(s) == [s EXCEPT !.tail = quote_chars(@)]

(***************************************************************************)
(* datetime.  A naive datetime is its number of seconds since              *)
(* 2024-01-01T00:00:00; the model's datetimes lie in the first ten         *)
(* minutes of that day.                                                    *)
(***************************************************************************)
Minute == 60                       \* timedelta(minutes=1), in seconds
StartClock == 5 * Minute           \* the clock at construction: 00:05:00

TwoDigits(n) == IF n < 10 THEN "0" \o ToString(n) ELSE ToString(n)

\* datetime.isoformat()
isoformat(sec) ==
    "2024-01-01T00:" \o TwoDigits(sec \div Minute) \o ":" \o TwoDigits(sec % Minute)

IsoTable == [sec \in 0..(10 * Minute - 1) |-> isoformat(sec)]

\* datetime.fromisoformat(v): TypeError unless v is a str, ValueError unless
\* the str is an ISO date or date and time.
fromisoformat(v) ==
    IF v.t # "str" \/ Len(v.x) # 1 THEN [ok |-> FALSE, sec |-> 0]
    ELSE IF v.x[1].v = "2024-01-01" THEN [ok |-> TRUE, sec |-> 0]
    ELSE IF \E sec \in DOMAIN IsoTable : IsoTable[sec] = v.x[1].v
         THEN [ok |-> TRUE,
               sec |-> CHOOSE sec \in DOMAIN IsoTable : IsoTable[sec] = v.x[1].v]
    ELSE [ok |-> FALSE, sec |-> 0]

(***************************************************************************)
(* Construction.                                                           *)
(***************************************************************************)
Host == "https://www.browniegate.xyz"

\* str.rstrip('/') on a url held as a sequence of chunks.
RECURSIVE rstrip(_)
rstrip(url) ==
    IF url # << >> /\ url[Len(url)] = "/"
    THEN rstrip(SubSeq(url, 1, Len(url) - 1))
    ELSE url

__init__(args) ==
    [debug |-> args.debug,
     api_key |-> args.api_key,
     project_uuid |-> args.project_uuid,
     encryption_key |-> args.encryption_key,
     base_url |-> rstrip(args.url),
     base_headers |-> [h \in {"authorization", "project-uuid", "Content-Type"} |->
                          CASE h = "authorization" -> args.api_key
                            [] h = "project-uuid" -> args.project_uuid
                            [] OTHER -> "application/json"]]

(***************************************************************************)
(* HTTP.  The server's answer to a request is an input of the call: the    *)
(* transport failing (requests.post raises), or a status with a body; the  *)
(* body is held as what response.json() makes of it.                       *)
(***************************************************************************)
\* requests.post(url, headers=self.base_headers, params=params)
Post(slf, path, params) ==
    [method |-> "POST",
     url |-> slf.base_url \o <<path>>,
     headers |-> slf.base_headers,
     params |-> params]

TransportError == [kind |-> "exc", status |-> 0, body |-> Fail]
Http(status, body) == [kind |-> "http", status |-> status, body |-> body]
NoResp == [kind |-> "none", status |-> 0, body |-> Fail]

(***************************************************************************)
(* What a call did: it returned (ret holds the value, or the components of *)
(* the tuple) or raised (exc names the exception), after issuing the       *)
(* requests reqs and printing the lines out.                               *)
(***************************************************************************)
Return(ret, reqs, out) ==
    [outcome |-> "return", ret |-> ret, exc |-> "", reqs |-> reqs, out |-> out]
Raise(exc, reqs, out) ==
    [outcome |-> "raise", ret |-> << >>, exc |-> exc, reqs |-> reqs, out |-> out]

Debug(slf, line) == IF slf.debug THEN <<line>> ELSE << >>

(***************************************************************************)
(* The methods.  Each operator is one method run to its end on the given   *)
(* instance, arguments and server answer.                                  *)
(***************************************************************************)
\* response.json() followed by the first result.get(...): JSONDecodeError
\* when the body is no JSON, AttributeError when it is no object.
JsonDict(resp) == resp.body.ok /\ resp.body.val.t = "dict"

decrypt_payload(slf, payload) ==
    IF ~FernetOk(slf.encryption_key) THEN Raise("Exception", << >>, << >>)
    ELSE LET decrypted == fernet_decrypt(slf.encryption_key, unquote(payload.b))
             parsed == json_loads(decrypted.pt)
         IN  IF ~decrypted.ok THEN Raise("Exception", << >>, << >>)
             ELSE IF ~parsed.ok THEN Raise("Exception", << >>, << >>)
             ELSE Return(<<parsed.val>>, << >>, << >>)

\* Mutant of Fresh: only a timestamp in the future is stale.
FreshFutureOnly(token_time, now) == ~(token_time > now + Minute)

\* Mutant of Fresh: the two ends of the window are stale.
FreshExclusive(token_time, now) ==
    /\ token_time < now + Minute
    /\ token_time > now - Minute

\* now - 1 minute <= token_time <= now + 1 minute
Fresh(token_time, now) ==
    /\ ~(token_time > now + Minute)
    /\ ~(token_time < now - Minute)

verify_payload(slf, now, decrypted_payload, resp) ==
    IF decrypted_payload.t # "dict" THEN Raise("AttributeError", << >>, << >>)
    ELSE
    LET token_time == fromisoformat(Get(decrypted_payload, "timestamp"))
        out == Debug(slf, "Pinging validate user")
        reqs == <<Post(slf, "/api/user/validate",
                       [k \in {"code"} |-> Get(decrypted_payload, "code")])>>
    IN  IF ~token_time.ok
        THEN Raise(IF Get(decrypted_payload, "timestamp").t # "str"
                   THEN "TypeError" ELSE "ValueError", << >>, << >>)
        ELSE IF ~Fresh(token_time.sec, now)
             THEN Return(<<PyFalse, Str("")>>, << >>, << >>)
        ELSE IF resp.kind = "exc" THEN Raise("ConnectionError", reqs, out)
        ELSE IF resp.status = 200
             THEN IF ~JsonDict(resp)
                  THEN Raise(IF ~resp.body.ok THEN "JSONDecodeError"
                             ELSE "AttributeError", reqs, out)
                  ELSE IF Truthy(Get(resp.body.val, "validated"))
                       THEN Return(<<PyTrue, Get(resp.body.val, "user_id")>>,
                                   reqs, out)
                  ELSE Return(<<PyFalse, Str("")>>, reqs, out)
        ELSE Raise("Exception", reqs, out)

get_user_data(slf, user_id, resp) ==
    LET out == Debug(slf, "Pinging get user data")
        reqs == <<Post(slf, "/api/user/get_data",
                       [k \in {"user_id"} |-> user_id])>>
    IN  IF resp.kind = "exc" THEN Raise("Exception", reqs, out)
        ELSE IF resp.status = 200
             THEN IF ~JsonDict(resp) THEN Raise("Exception", reqs, out)
                  ELSE IF Truthy(Get(resp.body.val, "validated"))
                       THEN Return(<<PyTrue, Pop(resp.body.val, "validated")>>,
                                   reqs, out)
                  ELSE Return(<<PyFalse, Str("")>>, reqs, out)
        ELSE Raise("Exception", reqs, out)

generate_cookie(slf, user_id, resp) ==
    LET out == Debug(slf, "Pinging generate cookie")
        reqs == <<Post(slf, "/api/cookie/generate",
                       [k \in {"user_id"} |-> user_id])>>
    IN  IF resp.kind = "exc" THEN Raise("Exception", reqs, out)
        ELSE IF resp.status = 200
             THEN IF ~JsonDict(resp) THEN Raise("Exception", reqs, out)
                  ELSE IF Truthy(Get(resp.body.val, "success"))
                       THEN IF ~FernetOk(slf.encryption_key)
                            THEN Raise("Exception", reqs, out)
                            ELSE IF Get(resp.body.val, "cookie").t # "str"
                                 THEN Raise("Exception", reqs, out)
                            ELSE Return(<<PyBytes(fernet_encrypt(
                                              slf.encryption_key,
                                              Get(resp.body.val, "cookie").x))>>,
                                        reqs, out)
                  ELSE Return(<<PyNone>>, reqs, out)
        ELSE Raise("Exception", reqs, out)

decrypt_cookie(slf, cookie) ==
    IF ~FernetOk(slf.encryption_key) THEN Raise("Exception", << >>, << >>)
    ELSE LET decrypted == fernet_decrypt(slf.encryption_key, cookie.b)
             data == literal_eval(decrypted.pt)
         IN  IF ~decrypted.ok THEN Raise("Exception", << >>, << >>)
             ELSE IF ~data.ok THEN Raise("Exception", << >>, << >>)
             ELSE IF data.val.t # "dict" THEN Raise("Exception", << >>, << >>)
             ELSE Return(<<Get(data.val, "user_id"), Get(data.val, "hash")>>,
                         << >>, << >>)

\* Mutant of validate_cookie: a failed request is sent once more.
validate_cookie_retrying(slf, user_id, cookie_hash, resp) ==
    LET out == Debug(slf, "Pinging validating cookie")
        req == Post(slf, "/api/cookie/validate",
                    [k \in {"user_id", "cookie_hash"} |->
                        IF k = "user_id" THEN user_id ELSE cookie_hash])
    IN  IF resp.kind = "exc" THEN Raise("Exception", <<req, req>>, out)
        ELSE IF resp.status = 200
             THEN IF ~JsonDict(resp) THEN Raise("Exception", <<req>>, out)
                  ELSE Return(<<IF Truthy(Get(resp.body.val, "success"))
                                THEN PyTrue ELSE PyFalse>>, <<req>>, out)
        ELSE Raise("Exception", <<req, req>>, out)

validate_cookie(slf, user_id, cookie_hash, resp) ==
    LET out == Debug(slf, "Pinging validating cookie")
        reqs == <<Post(slf, "/api/cookie/validate",
                       [k \in {"user_id", "cookie_hash"} |->
                           IF k = "user_id" THEN user_id ELSE cookie_hash])>>
    IN  IF resp.kind = "exc" THEN Raise("Exception", reqs, out)
        ELSE IF resp.status = 200
             THEN IF ~JsonDict(resp) THEN Raise("Exception", reqs, out)
                  ELSE Return(<<IF Truthy(Get(resp.body.val, "success"))
                                THEN PyTrue ELSE PyFalse>>, reqs, out)
        ELSE Raise("Exception", reqs, out)

\* Mutant of remove_cookie: any 2xx status counts as success.
remove_cookie_any_2xx(slf, user_id, resp) ==
    LET out == Debug(slf, "Pinging remove cookie")
        reqs == <<Post(slf, "/api/cookie/remove",
                       [k \in {"user_id"} |-> user_id])>>
    IN  IF resp.kind = "exc" THEN Raise("Exception", reqs, out)
        ELSE IF resp.status \notin 200..299 THEN Raise("Exception", reqs, out)
        ELSE Return(<<PyNone>>, reqs, out)

remove_cookie(slf, user_id, resp) ==
    LET out == Debug(slf, "Pinging remove cookie")
        reqs == <<Post(slf, "/api/cookie/remove",
                       [k \in {"user_id"} |-> user_id])>>
    IN  IF resp.kind = "exc" THEN Raise("Exception", reqs, out)
        ELSE IF resp.status # 200 THEN Raise("Exception", reqs, out)
        ELSE Return(<<PyNone>>, reqs, out)

\* Mutant of get_pfp: the success flag is not looked at.
get_pfp_unchecked(slf, user_id, resp) ==
    LET out == Debug(slf, "Pinging get user pfp")
        reqs == <<Post(slf, "/api/user/get_pfp",
                       [k \in {"user_id"} |-> user_id])>>
    IN  IF resp.kind = "exc" THEN Raise("Exception", reqs, out)
        ELSE IF resp.status = 200
             THEN IF ~JsonDict(resp) THEN Raise("Exception", reqs, out)
                  ELSE Return(<<Get(resp.body.val, "pfp")>>, reqs, out)
        ELSE Raise("Exception", reqs, out)

get_pfp(slf, user_id, resp) ==
    LET out == Debug(slf, "Pinging get user pfp")
        reqs == <<Post(slf, "/api/user/get_pfp",
                       [k \in {"user_id"} |-> user_id])>>
    IN  IF resp.kind = "exc" THEN Raise("Exception", reqs, out)
        ELSE IF resp.status = 200
             THEN IF ~JsonDict(resp) THEN Raise("Exception", reqs, out)
                  ELSE IF Truthy(Get(resp.body.val, "success"))
                       THEN Return(<<Get(resp.body.val, "pfp")>>, reqs, out)
                  ELSE Return(<<PyFalse>>, reqs, out)
        ELSE Raise("Exception", reqs, out)

(***************************************************************************)
(* The inputs of the model.                                                *)
(***************************************************************************)
Codes == {"c1", "c2"}
UserIds == {"u1", "u2"}
Hashes == {"h1"}

Urls == {<<Host>> \o [i \in 1..n |-> "/"] : n \in 0..MaxSlashes}

\* "short" is no well-formed Fernet key.
CtorArgs ==
    [debug : BOOLEAN, api_key : {"ak"}, project_uuid : {"pj"},
     encryption_key : FernetKeys \cup {"short"}, url : Urls]

\* Bodies of the server's answers, by endpoint.
Flags == {"true", "false", "absent"}
FlagDict(name, flag) ==
    CASE flag = "true" -> [k \in {name} |-> PyTrue]
      [] flag = "false" -> [k \in {name} |-> PyFalse]
      [] OTHER -> EmptyDict

\* f extended by key |-> v.
With(f, key, v) == [k \in (DOMAIN f) \cup {key} |-> IF k = key THEN v ELSE f[k]]

\* The text of a dict display with the fields user_id and hash, in single
\* (str(dict)) or double (JSON) quotes.
CookieLiteral(q, u, h) ==
    <<LB, Tok(q, "user_id"), COLON, Tok(q, u), COMMA,
      Tok(q, "hash"), COLON, Tok(q, h), RB>>

CookieTexts ==
    {CookieLiteral(q, u, h) : q \in {"sq", "dq"}, u \in UserIds, h \in Hashes}
    \cup {<<LB, Tok("sq", "user_id"), COLON, Tok("sq", "u1"), RB>>,
          <<LB, Tok("dq", "user_id"), COLON, Tok("dq", "u1"), COMMA,
            Tok("dq", "hash"), COLON, Tok("w", "null"), RB>>,
          <<Tok("sq", "u1")>>,
          Word("opaque-cookie")}

NotJson == Fail
JsonNull == Ok(PyNone)

ValidateBodies ==
    {Ok(PyDict(f)) : f \in {FlagDict("validated", v) : v \in Flags}
                          \cup {With(FlagDict("validated", v), "user_id", Str(u)) :
                                   v \in Flags, u \in {"u1"}}}
    \cup {NotJson, JsonNull}

UserDataBodies ==
    {Ok(PyDict(f)) : f \in {FlagDict("validated", v) : v \in Flags}
                          \cup {With(FlagDict("validated", v), "name", Str("n1")) :
                                   v \in Flags}
                          \cup {With(With(FlagDict("validated", v), "name", Str("n1")),
                                     "email", Str("e1")) : v \in Flags}}
    \cup {NotJson, JsonNull}

CookieBodies ==
    {Ok(PyDict(f)) : f \in {FlagDict("success", v) : v \in Flags}
                          \cup {With(FlagDict("success", v), "cookie", PyStr(c)) :
                                   v \in Flags, c \in CookieTexts}}
    \cup {NotJson, JsonNull}

SuccessBodies ==
    {Ok(PyDict(FlagDict("success", v))) : v \in Flags} \cup {NotJson, JsonNull}

PfpBodies ==
    {Ok(PyDict(f)) : f \in {FlagDict("success", v) : v \in Flags}
                          \cup {With(FlagDict("success", v), "pfp", Str("https://pfp/u1")) :
                                   v \in Flags}}
    \cup {NotJson, JsonNull}

Statuses == {200, 201, 404, 500}

Responses(bodies) ==
    {TransportError} \cup {Http(st, b) : st \in Statuses, b \in bodies}

\* Timestamps around the two edges of the window, and the clock's start.
Offsets ==
    ((0 - (Minute + 1))..(MaxTicks - (Minute - 1)))
    \cup {0}
    \cup ((Minute - 1)..(Minute + 1 + MaxTicks))

Timestamps == {isoformat(StartClock + d) : d \in Offsets} \cup {"2024-01-01", ""}

DecryptedPayloads ==
    {PyDict([k \in {"code", "timestamp"} |->
                IF k = "code" THEN Str(c) ELSE Str(ts)]) :
        c \in Codes, ts \in Timestamps}
    \cup {PyDict([k \in {"code"} |-> Str("c1")]),
          PyDict([k \in {"timestamp"} |-> Str(isoformat(StartClock))]),
          PyDict([k \in {"code", "timestamp"} |->
                     IF k = "code" THEN Str("c1") ELSE PyNone]),
          Str("c1")}

\* Plaintexts of the tokens handed to decrypt_payload: the JSON texts of
\* mappings, and texts that are no JSON, or no JSON object.
PayloadMappings ==
    [code : Codes, timestamp : {isoformat(StartClock), "2024-01-01", ""}]

PayloadTexts ==
    {json_dumps(m) : m \in PayloadMappings}
    \cup {<<LB, Tok("dq", "code"), COLON, Tok("w", "NaN"), RB>>,
          <<LB, Tok("sq", "code"), COLON, Tok("sq", "c1"), RB>>,
          <<LB, Tok("dq", "code"), COLON>>,
          <<Tok("dq", "c1")>>,
          Word("hello")}

\* The strings that differ from s in one byte: the version byte, a byte of
\* the ciphertext, a byte of the HMAC, the bits of the last data character
\* that encode nothing (there are some when padding follows), one '-' or
\* '_' among the data characters written '+' or '/' (a token of a hundred
\* and more characters has some), or one character of the tail.
TailChars == {"=", "%", "3", "D", "d", "!"}

OneByteAltered(s) ==
    {[s EXCEPT !.raw.ver = 129],
     [s EXCEPT !.raw.ct.g = 1],
     [s EXCEPT !.raw.mac.flip = 1]}
    \cup (IF NPad(s.raw) > 0 THEN {[s EXCEPT !.slack = 1]} ELSE {})
    \cup {[s EXCEPT !.std = 1]}
    \cup ({[s EXCEPT !.tail[i] = c] : i \in DOMAIN s.tail, c \in TailChars} \ {s})

\* A string that is no token at all.
Garbage == [raw |-> [ver |-> 110, ct |-> [key |-> "", pt |-> << >>, g |-> 1],
                     mac |-> [key |-> "", ver |-> 110,
                              ct |-> [key |-> "", pt |-> << >>, g |-> 1],
                              flip |-> 1]],
            slack |-> 0, std |-> 0, tail |-> << >>]

TokenStr(b) == [t |-> "str", b |-> b]

\* The payload as its issuer sends it: encrypted, then URL-encoded.
EncryptedPayload(key, pt) == quote(fernet_encrypt(key, pt))

Payloads ==
    {TokenStr(b) :
        b \in (UNION {{EncryptedPayload(k, pt), fernet_encrypt(k, pt)}
                         \cup OneByteAltered(EncryptedPayload(k, pt)) :
                      k \in FernetKeys, pt \in PayloadTexts})
              \cup {Garbage}}

Cookies ==
    {PyBytes(b) :
        b \in (UNION {{fernet_encrypt(k, c)} \cup OneByteAltered(fernet_encrypt(k, c)) :
                      k \in FernetKeys, c \in CookieTexts})
              \cup {Garbage}}

(***************************************************************************)
(* The state machine.                                                      *)
(***************************************************************************)
NoCall ==
    [op |-> "none", args |-> << >>, now |-> 0, resp |-> NoResp,
     result |-> Return(<< >>, << >>, << >>)]

\* The record of a call: the answer is kept only if a request was issued,
\* the clock reading only by the method that reads the clock.
Called(op, args, now, resp, result) ==
    [op |-> op, args |-> args, now |-> now,
     resp |-> IF result.reqs = << >> THEN NoResp ELSE resp,
     result |-> result]

Init ==
    /\ ctor \in CtorArgs
    /\ self = __init__(ctor)
    /\ clock = StartClock
    /\ last = NoCall
    /\ runtime \in Runtimes

\* No call is in the caller's hands.
Idle == last = NoCall

\* The caller has taken the outcome of the call.
TakeResult ==
    /\ ~Idle
    /\ last' = NoCall
    /\ UNCHANGED <<ctor, self, clock, runtime>>

Tick ==
    /\ clock < StartClock + MaxTicks
    /\ clock' = clock + 1
    /\ UNCHANGED <<ctor, self, last, runtime>>

DecryptPayload ==
    /\ Idle
    /\ \E payload \in Payloads :
        /\ last' = Called("decrypt_payload", <<payload>>, 0, NoResp,
                          decrypt_payload(self, payload))
        /\ UNCHANGED <<ctor, self, clock, runtime>>

VerifyPayload ==
    /\ Idle
    /\ \E dp \in DecryptedPayloads, resp \in Responses(ValidateBodies) :
        /\ last' = Called("verify_payload", <<dp>>, clock, resp,
                          verify_payload(self, clock, dp, resp))
        /\ UNCHANGED <<ctor, self, clock, runtime>>

\* Mutant of GetUserData: the user id is kept in the shared headers.
GetUserDataRemembering ==
    /\ Idle
    /\ \E u \in UserIds, resp \in Responses(UserDataBodies) :
        /\ last' = Called("get_user_data", <<Str(u)>>, 0, resp,
                          get_user_data(self, Str(u), resp))
        /\ self' = [self EXCEPT !.base_headers =
                        [h \in (DOMAIN @) \cup {"user-id"} |->
                            IF h = "user-id" THEN u ELSE @[h]]]
        /\ UNCHANGED <<ctor, clock, runtime>>

GetUserData ==
    /\ Idle
    /\ \E u \in UserIds, resp \in Responses(UserDataBodies) :
        /\ last' = Called("get_user_data", <<Str(u)>>, 0, resp,
                          get_user_data(self, Str(u), resp))
        /\ UNCHANGED <<ctor, self, clock, runtime>>

GenerateCookie ==
    /\ Idle
    /\ \E u \in UserIds, resp \in Responses(CookieBodies) :
        /\ last' = Called("generate_cookie", <<Str(u)>>, 0, resp,
                          generate_cookie(self, Str(u), resp))
        /\ UNCHANGED <<ctor, self, clock, runtime>>

\* The cookie a generate_cookie has just returned, if any.
Generated ==
    IF /\ last.op = "generate_cookie"
       /\ last.result.outcome = "return"
       /\ last.result.ret[1].t = "bytes"
    THEN {last.result.ret[1]} ELSE {}

\* The cookie is one the caller holds: any of Cookies, or the one the call
\* before, a generate_cookie, returned.
DecryptCookie ==
    \E cookie \in (IF Idle THEN Cookies ELSE Generated) : 
        /\ last' = Called("decrypt_cookie", <<cookie>>, 0, NoResp,
                          decrypt_cookie(self, cookie))
        /\ UNCHANGED <<ctor, self, clock, runtime>>

ValidateCookie ==
    /\ Idle
    /\ \E u \in UserIds, h \in Hashes, resp \in Responses(SuccessBodies) :
        /\ last' = Called("validate_cookie", <<Str(u), Str(h)>>, 0, resp,
                          validate_cookie(self, Str(u), Str(h), resp))
        /\ UNCHANGED <<ctor, self, clock, runtime>>

RemoveCookie ==
    /\ Idle
    /\ \E u \in UserIds, resp \in Responses(SuccessBodies) :
        /\ last' = Called("remove_cookie", <<Str(u)>>, 0, resp,
                          remove_cookie(self, Str(u), resp))
        /\ UNCHANGED <<ctor, self, clock, runtime>>

GetPfp ==
    /\ Idle
    /\ \E u \in UserIds, resp \in Responses(PfpBodies) :
        /\ last' = Called("get_pfp", <<Str(u)>>, 0, resp,
                          get_pfp(self, Str(u), resp))
        /\ UNCHANGED <<ctor, self, clock, runtime>>

Next ==
    \/ Tick
    \/ TakeResult
    \/ DecryptPayload
    \/ VerifyPayload
    \/ GetUserData
    \/ GenerateCookie
    \/ DecryptCookie
    \/ ValidateCookie
    \/ RemoveCookie
    \/ GetPfp

Spec == Init /\ [][Next]_vars

(***************************************************************************)
(* Properties.                                                             *)
(***************************************************************************)
Remote ==
    {"verify_payload", "get_user_data", "generate_cookie", "validate_cookie",
     "remove_cookie", "get_pfp"}

Returned(ret) == last.result.outcome = "return" /\ last.result.ret = ret
Raised == last.result.outcome = "raise"

\* The call was answered with this status and a JSON object as body.
Answered200 ==
    /\ last.resp.kind = "http"
    /\ last.resp.status = 200
    /\ last.resp.body.ok
    /\ last.resp.body.val.t = "dict"

Body == last.resp.body.val

\* The verify_payload call was given a mapping whose timestamp is the ISO
\* text of second `sec`.
StampedAt(sec) ==
    /\ last.op = "verify_payload"
    /\ last.args[1].t = "dict"
    /\ "timestamp" \in DOMAIN last.args[1].d
    /\ last.args[1].d["timestamp"] = Str(IsoTable[sec])

Seconds == DOMAIN IsoTable

\* C1: a verify_payload call whose payload's timestamp is more than one
\* minute after, or more than one minute before, the clock at the call
\* returns (False, '') and issues no HTTP request.
C1_StaleRejectedWithoutRequest ==
    \A sec \in (IF last.op = "verify_payload" THEN Seconds ELSE {}) :
        (StampedAt(sec) /\ (sec > last.now + Minute \/ sec < last.now - Minute))
            => /\ Returned(<<PyFalse, Str("")>>)
               /\ last.result.reqs = << >>
               /\ last.resp = NoResp

\* A payload 61 seconds old was rejected without a request.
C1_Witness ==
    /\ last.op = "verify_payload"
    /\ StampedAt(last.now - Minute - 1)
    /\ Returned(<<PyFalse, Str("")>>)
    /\ last.result.reqs = << >>

\* C2: a remote method whose request is answered with a status other than
\* 200 raises, whatever the body; it returns no value.
C2_Non200Raises ==
    (last.op \in Remote /\ last.resp.kind = "http" /\ last.resp.status # 200)
        => Raised /\ last.result.ret = << >>

\* remove_cookie was answered 201 and raised; get_user_data is covered by
\* the same formula.
C2_Witness ==
    /\ last.op = "remove_cookie"
    /\ last.resp.kind = "http"
    /\ last.resp.status = 201
    /\ Raised

\* C3: on HTTP 200 a body with validated == false makes verify_payload and
\* get_user_data return (False, ''), a body with success == false makes
\* generate_cookie return None and validate_cookie and get_pfp return
\* False; none of them raises.
C3_RejectionIsAValue ==
    /\ (/\ last.op \in {"verify_payload", "get_user_data"}
        /\ Answered200
        /\ "validated" \in DOMAIN Body.d
        /\ Body.d["validated"] = PyFalse)
           => Returned(<<PyFalse, Str("")>>)
    /\ (/\ last.op \in {"generate_cookie", "validate_cookie", "get_pfp"}
        /\ Answered200
        /\ "success" \in DOMAIN Body.d
        /\ Body.d["success"] = PyFalse)
           => Returned(IF last.op = "generate_cookie"
                       THEN <<PyNone>> ELSE <<PyFalse>>)

\* generate_cookie was refused a cookie and returned None.
C3_Witness ==
    /\ last.op = "generate_cookie"
    /\ Answered200
    /\ "success" \in DOMAIN Body.d
    /\ Body.d["success"] = PyFalse
    /\ Returned(<<PyNone>>)

\* The request verify_payload is to issue for the payload of the call.
ValidateRequest ==
    [method |-> "POST",
     url |-> self.base_url \o <<"/api/user/validate">>,
     headers |-> [h \in {"authorization", "project-uuid", "Content-Type"} |->
                     CASE h = "authorization" -> ctor.api_key
                       [] h = "project-uuid" -> ctor.project_uuid
                       [] OTHER -> "application/json"],
     params |-> [k \in {"code"} |->
                    IF "code" \in DOMAIN last.args[1].d
                    THEN last.args[1].d["code"] ELSE PyNone]]

Validated == "validated" \in DOMAIN Body.d /\ Body.d["validated"] = PyTrue

\* C4: a verify_payload call whose payload's timestamp lies within one
\* minute of the clock, bounds included, issues one POST to
\* <base_url>/api/user/validate with the payload's code and the fixed
\* headers; answered 200 it returns (True, user_id of the body) exactly
\* when the body has validated == true, and (False, '') otherwise; and no
\* verify_payload call returns True without such an answer.
C4_FreshIsValidatedRemotely ==
    /\ \A sec \in (IF last.op = "verify_payload" THEN Seconds ELSE {}) :
           (StampedAt(sec) /\ last.now - Minute <= sec /\ sec <= last.now + Minute)
               => /\ last.result.reqs = <<ValidateRequest>>
                  /\ Answered200 =>
                         Returned(IF Validated
                                  THEN <<PyTrue, Get(Body, "user_id")>>
                                  ELSE <<PyFalse, Str("")>>)
    /\ (/\ last.op = "verify_payload"
        /\ last.result.outcome = "return"
        /\ last.result.ret[1] = PyTrue)
           => Answered200 /\ Validated /\ Len(last.result.reqs) = 1

\* A payload exactly one minute old was validated by the server.
C4_Witness ==
    /\ last.op = "verify_payload"
    /\ StampedAt(last.now - Minute)
    /\ Answered200
    /\ Validated
    /\ Returned(<<PyTrue, Str("u1")>>)
    /\ last.result.reqs = <<ValidateRequest>>

Success == "success" \in DOMAIN Body.d /\ Body.d["success"] = PyTrue

\* C5: on a client whose key is a Fernet key, when generate_cookie(u) is
\* answered 200 with success == true and a cookie that is a dict display
\* with user_id = u and hash = h, it returns a cookie that decrypt_cookie
\* of the same client turns into exactly (u, h).
C5_CookieRoundTrip ==
    \A q \in {"sq", "dq"}, u \in UserIds, h \in Hashes :
        /\ (/\ last.op = "generate_cookie"
            /\ FernetOk(self.encryption_key)
            /\ last.args = <<Str(u)>>
            /\ Answered200
            /\ Success
            /\ Get(Body, "cookie") = PyStr(CookieLiteral(q, u, h)))
               => /\ last.result.outcome = "return"
                  /\ last.result.ret[1].t = "bytes"
                  /\ decrypt_cookie(self, last.result.ret[1])
                         = Return(<<Str(u), Str(h)>>, << >>, << >>)
        /\ (/\ last.op = "decrypt_cookie"
            /\ FernetOk(self.encryption_key)
            /\ last.args = <<PyBytes(fernet_encrypt(self.encryption_key,
                                                     CookieLiteral(q, u, h)))>>)
               => Returned(<<Str(u), Str(h)>>)

\* generate_cookie("u2") was given a str(dict) cookie and its result
\* decrypts to ("u2", "h1").
C5_Witness ==
    /\ last.op = "generate_cookie"
    /\ last.args = <<Str("u2")>>
    /\ Answered200
    /\ Success
    /\ Get(Body, "cookie") = PyStr(CookieLiteral("sq", "u2", "h1"))
    /\ last.result.outcome = "return"
    /\ decrypt_cookie(self, last.result.ret[1]).ret = <<Str("u2"), Str("h1")>>

\* The strings that are the unmodified encryption of a JSON text under the
\* client's key, URL-encoded or not; a JSON text is taken to be whatever
\* the parser accepts.
Unmodified ==
    {TokenStr(b) :
        b \in UNION {{EncryptedPayload(self.encryption_key, pt),
                      fernet_encrypt(self.encryption_key, pt)} :
                     pt \in {t \in PayloadTexts : json_loads(t).ok}}}

\* C6 as stated: decrypt_payload raises for every string that is not the
\* unmodified encryption of a JSON text under the client's key.
C6_AsStated ==
    (last.op = "decrypt_payload" /\ last.args[1] \notin Unmodified) => Raised

\* C6, amended: decrypt_payload returns only when the bytes its argument
\* decodes to are, unaltered, those of a token made under the client's key
\* for a text the JSON parser accepts, and then returns that text's value;
\* in particular it raises when a byte of the token's version, ciphertext
\* or HMAC is altered, when the token was made under another key, when the
\* string is no token, and when the plaintext is no JSON for the parser.
\* Another spelling of such a token (its padding percent-encoded in either
\* case or not at all, other unused bits in its last data character, '+'
\* or '/' for a '-' or '_') is decrypted like the token itself, on every
\* runtime.
C6_Authenticity ==
    last.op = "decrypt_payload" =>
        LET arg == last.args[1].b
            raw == arg.raw
        IN  /\ last.result.outcome = "return" =>
                /\ raw = Token(self.encryption_key, raw.ct.pt)
                /\ json_loads(raw.ct.pt).ok
                /\ last.result.ret = <<json_loads(raw.ct.pt).val>>
            /\ (\/ raw.ver # 128
                \/ raw.ct.g # 0
                \/ raw.mac.flip # 0
                \/ raw.ct.key # self.encryption_key
                \/ ~json_loads(raw.ct.pt).ok) => Raised
            /\ (/\ FernetOk(self.encryption_key)
                /\ raw = Token(self.encryption_key, raw.ct.pt)
                /\ json_loads(raw.ct.pt).ok
                /\ unquote_chars(arg.tail) = [i \in 1..NPad(raw) |-> "="])
                   => Returned(<<json_loads(raw.ct.pt).val>>)

\* A string whose last data character differs from the issued one in bits
\* that encode nothing was decrypted to the mapping.
C6_Witness ==
    /\ last.op = "decrypt_payload"
    /\ last.args[1].b.slack = 1
    /\ last.result.outcome = "return"
    /\ last.result.ret[1].t = "dict"

\* C7: for every mapping {code, timestamp} and every client whose key is a
\* Fernet key, decrypt_payload of the mapping's JSON text, encrypted under
\* that key and URL-encoded, returns a mapping equal to the original.
C7_PayloadRoundTrip ==
    \A m \in PayloadMappings :
        (/\ last.op = "decrypt_payload"
         /\ FernetOk(self.encryption_key)
         /\ last.args = <<TokenStr(EncryptedPayload(self.encryption_key,
                                                     json_dumps(m)))>>)
            => Returned(<<PyDict([k \in {"code", "timestamp"} |->
                                     IF k = "code" THEN Str(m.code)
                                     ELSE Str(m.timestamp)])>>)

\* The payload {code: "c2", timestamp: 00:05:00}, whose token ends in
\* padding, came back.
C7_Witness ==
    /\ last.op = "decrypt_payload"
    /\ last.args = <<TokenStr(EncryptedPayload(self.encryption_key,
                        json_dumps([code |-> "c2",
                                    timestamp |-> isoformat(StartClock)])))>>
    /\ last.args[1].b.tail = <<"%", "3", "D", "%", "3", "D">>
    /\ Returned(<<PyDict([k \in {"code", "timestamp"} |->
                             IF k = "code" THEN Str("c2")
                             ELSE Str(isoformat(StartClock))])>>)

\* C8: the instance's attributes are, after any calls, those the
\* constructor set from its arguments.
C8_ConfigurationUnchanged ==
    /\ self.debug = ctor.debug
    /\ self.api_key = ctor.api_key
    /\ self.project_uuid = ctor.project_uuid
    /\ self.encryption_key = ctor.encryption_key
    /\ self.base_url = <<Host>>
    /\ DOMAIN self.base_headers = {"authorization", "project-uuid", "Content-Type"}
    /\ self.base_headers["authorization"] = ctor.api_key
    /\ self.base_headers["project-uuid"] = ctor.project_uuid
    /\ self.base_headers["Content-Type"] = "application/json"
    /\ self = __init__(ctor)

\* A get_user_data call has returned user data and left the attributes alone.
C8_Witness ==
    /\ last.op = "get_user_data"
    /\ last.result.outcome = "return"
    /\ last.result.ret[1] = PyTrue
    /\ self = __init__(ctor)

\* C9: a call of a remote method issues at most one HTTP request; when the
\* request fails or is answered with another status than 200, the call
\* raises with that one request issued.
C9_NoRetry ==
    /\ Len(last.result.reqs) <= 1
    /\ (/\ last.op \in Remote
        /\ (last.resp.kind = "exc"
               \/ (last.resp.kind = "http" /\ last.resp.status # 200)))
           => Raised /\ Len(last.result.reqs) = 1
    /\ last.op \notin Remote => last.result.reqs = << >>

\* validate_cookie met a transport failure and raised after one request.
C9_Witness ==
    /\ last.op = "validate_cookie"
    /\ last.resp.kind = "exc"
    /\ Raised
    /\ Len(last.result.reqs) = 1

\* C10: get_user_data answered 200 with validated == true returns
\* (True, m), m being the body without its `validated` field: every other
\* field with its value, and no `validated`.
C10_UserDataStripsValidated ==
    (last.op = "get_user_data" /\ Answered200 /\ Validated)
        => /\ last.result.outcome = "return"
           /\ Len(last.result.ret) = 2
           /\ last.result.ret[1] = PyTrue
           /\ last.result.ret[2].t = "dict"
           /\ DOMAIN last.result.ret[2].d = (DOMAIN Body.d) \ {"validated"}
           /\ \A k \in DOMAIN last.result.ret[2].d :
                  last.result.ret[2].d[k] = Body.d[k]

\* User data with two more fields came back without `validated`.
C10_Witness ==
    /\ last.op = "get_user_data"
    /\ Answered200
    /\ Validated
    /\ DOMAIN Body.d = {"validated", "name", "email"}
    /\ last.result.outcome = "return"
    /\ DOMAIN last.result.ret[2].d = {"name", "email"}

=============================================================================
